---------------------------- MODULE Spec2Model ----------------------------
(***************************************************************************)
(* PPG diabetes-risk pipeline: preprocessing, beat detection, feature      *)
(* extraction, physiology normalisation and the risk model.                *)
(*                                                                         *)
(* Arithmetic is exact integer arithmetic on fixed grids:                  *)
(*   physiology score (risk model)   1 unit = 0.01                         *)
(*   metadata adjustment             1 unit = 0.0025   (AdjOne  = 1.0)     *)
(*   probabilities (current/10y/30y) 1 unit = 4e-9     (ProbOne = 1.0)     *)
(*   report values "(%)"             1 unit = 0.01 %                       *)
(*   age, sleep hours, activity      1 unit = 0.1                          *)
(*   per-feature deviation risk      1 unit = 1/4800   (RiskOne = 1.0)     *)
(*   normalised physiology score     1 unit = 1/480000 (ScoreOne = 1.0)    *)
(***************************************************************************)
EXTENDS Integers, Sequences, FiniteSets, TLC

VARIABLES
    pc,                 \* position of the program under analysis
    phys_arg,           \* physiology_to_absolute_probability: phys_score argument
    adj_arg,            \* physiology_to_absolute_probability: metadata_adj argument
    probs,              \* (current, ten, thirty) returned by it
    features,           \* compute_metadata_adjustment: the metadata mapping
    meta_adj,           \* its return value
    physiology_output,  \* run_diabetes_prediction: its argument
    save,               \* run_diabetes_prediction: its save flag
    result,             \* run_diabetes_prediction: the returned dict
    final_report,       \* rows of the newest file in FINAL_PATH ("none" until written)
    page,               \* what index() renders: the risk dict with the re-derived label
    feature_record,     \* compute_physiology_score: the features mapping
    risk_terms,         \* its per-feature r (risk_from_deviation of each weighted feature)
    breakdown,          \* its breakdown dict, in hundredths of a percent
    norm_phys_score,    \* its phys_score
    raw_files,          \* RAW_PATH, oldest file first
    processed_files,    \* PROCESSED_PATH, oldest file first
    features_files,     \* FEATURES_PATH, oldest file first
    raw_file,           \* run_pipeline: raw_file
    beats_data,         \* run_pipeline: beats_data
    ppg_features,       \* run_feature_extraction: features
    features_file,      \* run_pipeline: features_file
    pipeline_result,    \* run_pipeline: result of run_diabetes_prediction
    time_diff,          \* preprocess_latest_csv: the timestamp deltas of the raw file
    estimated_fs,       \* its estimated_fs
    ir_signal,          \* its ir_signal, as a slice of the raw samples
    df,                 \* its df, as a slice of the raw rows
    processed_csv,      \* the <name>_processed.csv it writes
    beat_fs,            \* run_latest_beat_detection: fs, as the fraction num / den
    feature_fs,         \* run_feature_extraction: fs
    run_pc,             \* concurrent runs: the position of each run_pipeline
    run_read,           \* the file each stage of each run selected as latest
    run_beats,          \* beats_data of each run
    serial              \* history: no step was taken while another run was under way

riskVars == <<phys_arg, adj_arg, probs, features, meta_adj, physiology_output,
              save, result, final_report, page>>

normVars == <<feature_record, risk_terms, breakdown, norm_phys_score>>

pipeVars == <<raw_files, processed_files, features_files, raw_file, beats_data,
              ppg_features, features_file, pipeline_result>>

preVars == <<time_diff, estimated_fs, ir_signal, df, processed_csv, beat_fs, feature_fs>>

runsVars == <<run_pc, run_read, run_beats, serial>>

vars == <<pc, riskVars, normVars, pipeVars, preVars, runsVars>>

-----------------------------------------------------------------------------
(* Python values as they appear in the metadata mapping and feature record. *)

PyNone == [t |-> "none", n |-> 0, s |-> ""]
PyNaN == [t |-> "nan", n |-> 0, s |-> ""]
PyStr(x) == [t |-> "str", n |-> 0, s |-> x]
\* a number, in the unit of its field (tenths for age: PyNum(650) is 65)
PyNum(x) == [t |-> "num", n |-> x, s |-> ""]

\* bool(v): None, 0, 0.0 and "" are falsy; NaN and any other value are truthy
Truthy(v) ==
    CASE v.t = "none" -> FALSE
      [] v.t = "nan" -> TRUE
      [] v.t = "num" -> v.n # 0
      [] OTHER -> v.s # ""

\* Python's `a or b`
PyOr(a, b) == IF Truthy(a) THEN a ELSE b

\* str(v).lower() in ("1", "yes", "y", "true")
IsYes(v) ==
    \/ v.t = "str" /\ v.s \in {"1", "yes", "y", "true", "Yes", "YES", "Y", "True"}
    \/ v.t = "num" /\ v.n = 10

\* float(v) succeeds (no exception is raised)
FloatOk(v) == v.t \in {"num", "nan"} \/ (v.t = "str" /\ v.s \in {"1"})

\* float(v) for a value with FloatOk(v) that is not NaN, in tenths
FloatOf(v) == IF v.t = "str" THEN 10 ELSE v.n

Min(a, b) == IF a <= b THEN a ELSE b
Max(a, b) == IF a >= b THEN a ELSE b
Abs(a) == IF a >= 0 THEN a ELSE 0 - a

\* np.clip(x, lo, hi)
Clip(x, lo, hi) == Max(lo, Min(x, hi))

\* round(num / den) to the nearest integer, ties to even (den > 0)
Round(num, den) ==
    LET q == num \div den
        r == num % den
    IN  IF 2 * r < den THEN q
        ELSE IF 2 * r > den THEN q + 1
        ELSE IF q % 2 = 0 THEN q ELSE q + 1

-----------------------------------------------------------------------------
(* risk_model.py                                                            *)

AdjOne == 4 * 100
ProbOne == 250 * 1000 * 1000

\* BASELINE_PREVALENCE = 0.12
BASELINE_PREVALENCE == 12 * (ProbOne \div 100)

\* METADATA_WEIGHTS, in adjustment units
METADATA_WEIGHTS ==
    [family_history_first_degree |-> 180,
     age |-> 100,
     physical_activity_hrs_per_week |-> 0 - 80,
     sleep_hours |-> 0 - 40,
     smoking_status |-> 140]

\* the bounds of the final clamp: -0.35 and 0.90
ADJ_MIN == 0 - (AdjOne * 35) \div 100
ADJ_MAX == (AdjOne * 90) \div 100

\* the keys compute_metadata_adjustment reads; an absent key reads as None
MetaKeys ==
    {"family_history_first_degree", "family_diabetes", "family_history",
     "smoking_status", "smoker", "age", "sleep_hours",
     "physical_activity_hrs_per_week", "activity_score"}

FamilyAdj(family) ==
    IF IsYes(family) THEN METADATA_WEIGHTS.family_history_first_degree ELSE 0

AgeAdj(age) ==
    IF age.t = "none" \/ ~FloatOk(age) \/ age.t = "nan" THEN 0
    ELSE LET a == FloatOf(age)
             w == METADATA_WEIGHTS.age
         IN  IF a >= 700 THEN w
             ELSE IF a >= 600 THEN (w * 85) \div 100
             ELSE IF a >= 500 THEN (w * 60) \div 100
             ELSE IF a >= 450 THEN (w * 35) \div 100
             ELSE IF a >= 350 THEN (w * 10) \div 100
             ELSE 0

\* every comparison with NaN is false, so NaN falls through to the final else
ActivityAdj(activity) ==
    IF activity.t = "none" \/ ~FloatOk(activity) THEN 0
    ELSE LET w == METADATA_WEIGHTS.physical_activity_hrs_per_week
             nan == activity.t = "nan"
             act == FloatOf(activity)
         IN  IF ~nan /\ act <= 10 THEN Abs(w)
             ELSE IF ~nan /\ act = 20 THEN (Abs(w) * 5) \div 10
             ELSE IF ~nan /\ 30 <= act /\ act < 40 THEN (w * 3) \div 10
             ELSE (w * 8) \div 10

SleepAdj(sleep_h) ==
    IF sleep_h.t = "none" \/ ~FloatOk(sleep_h) \/ sleep_h.t = "nan" THEN 0
    ELSE LET sh == FloatOf(sleep_h)
         IN  IF sh < 40 THEN 40
             ELSE IF sh < 60 THEN 24
             ELSE IF 70 <= sh /\ sh <= 90 THEN (METADATA_WEIGHTS.sleep_hours * 8) \div 10
             ELSE IF sh > 90 THEN 20
             ELSE 0

SmokingAdj(smoking) ==
    IF IsYes(smoking) THEN METADATA_WEIGHTS.smoking_status ELSE 0

\* mutant: the final clamp left out
MetaClamp_Missing(adj) == adj

MetaClamp(adj) == Clip(adj, ADJ_MIN, ADJ_MAX)

\* the sum of the five contributions before the final clamp
RawAdjustment(f) ==
    LET family == PyOr(PyOr(f.family_history_first_degree, f.family_diabetes),
                       f.family_history)
        smoking == PyOr(f.smoking_status, f.smoker)
        age == f.age
        sleep_h == f.sleep_hours
        activity == PyOr(f.physical_activity_hrs_per_week, f.activity_score)
    IN  FamilyAdj(family) + AgeAdj(age) + ActivityAdj(activity)
          + SleepAdj(sleep_h) + SmokingAdj(smoking)

compute_metadata_adjustment(f) == MetaClamp(RawAdjustment(f))

\* scaling constants: phys_scale = 1.8 and meta_scale = 1.2, in tenths
phys_scale == 18
meta_scale == 12

\* 1.0 as a combined_factor
FactorOne == 40 * 1000

\* the caps of current, ten-year and thirty-year risk: 0.50, 0.65, 0.80
CURRENT_CAP == 50 * (ProbOne \div 100)
TEN_CAP == 65 * (ProbOne \div 100)
THIRTY_CAP == 80 * (ProbOne \div 100)

\* float(max(0.0, min(phys_score, 1.0))), phys_score in hundredths
PhysClamp(phys_score) == Max(0, Min(phys_score, 100))

\* mutant: the 0.60 / 0.40 weights left out
CurrentRisk_Unweighted(phys, metadata_adj, baseline) ==
    LET weighted_phys == 10 * (phys * phys_scale) * 4
        weighted_meta == 10 * (metadata_adj * meta_scale)
        combined_factor == FactorOne + weighted_phys + weighted_meta
    IN  Clip((baseline \div FactorOne) * combined_factor, 0, CURRENT_CAP)

\* mutant: the 0.60 / 0.40 weights exchanged
CurrentRisk_SwappedWeights(phys, metadata_adj, baseline) ==
    LET weighted_phys == 4 * (phys * phys_scale) * 4
        weighted_meta == 6 * (metadata_adj * meta_scale)
        combined_factor == FactorOne + weighted_phys + weighted_meta
    IN  Clip((baseline \div FactorOne) * combined_factor, 0, CURRENT_CAP)

\* np.clip(baseline * combined_factor, 0.0, 0.50)
CurrentRisk(phys, metadata_adj, baseline) ==
    LET weighted_phys == 6 * (phys * phys_scale) * 4
        weighted_meta == 4 * (metadata_adj * meta_scale)
        combined_factor == FactorOne + weighted_phys + weighted_meta
    IN  Clip((baseline \div FactorOne) * combined_factor, 0, CURRENT_CAP)

\* mutant: the adjustment enters the projections with its sign
PositivePart_Signed(metadata_adj) == metadata_adj

\* max(0.0, metadata_adj)
PositivePart(metadata_adj) == Max(0, metadata_adj)

\* current * (1.0 + 0.40 * phys_score + max(0.0, metadata_adj) * 0.6), clipped;
\* current is a multiple of 12000 on these grids, so the division is exact
TenYearRisk(current, phys, metadata_adj) ==
    Clip((current \div 2000) * (2000 + 8 * phys + 3 * PositivePart(metadata_adj)),
         0, TEN_CAP)

\* mutant: the thirty-year projection without its cap
ThirtyYearRisk_Unclipped(current, phys, metadata_adj) ==
    (current \div 4000) * (4000 + 34 * phys + 11 * PositivePart(metadata_adj))

\* current * (1.0 + 0.85 * phys_score + max(0.0, metadata_adj) * 1.1), clipped
ThirtyYearRisk(current, phys, metadata_adj) ==
    Clip((current \div 4000) * (4000 + 34 * phys + 11 * PositivePart(metadata_adj)),
         0, THIRTY_CAP)

physiology_to_absolute_probability(phys_score, metadata_adj, baseline) ==
    LET phys == PhysClamp(phys_score)
        current == CurrentRisk(phys, metadata_adj, baseline)
    IN  [current |-> current,
         ten |-> TenYearRisk(current, phys, metadata_adj),
         thirty |-> ThirtyYearRisk(current, phys, metadata_adj)]

\* round(x * 100, 2) of a probability x, in hundredths of a percent
PctRound(x) == Round(x, ProbOne \div 10000)

\* 1 % as a probability
OnePercent == ProbOne \div 100

\* mutant: the label taken from the rounded percentage
RiskLabel_FromRounded(current) ==
    IF Round(current, ProbOne \div 10000) < 500 THEN "Very Low Risk"
    ELSE IF Round(current, ProbOne \div 10000) < 1500 THEN "Low Risk"
    ELSE IF Round(current, ProbOne \div 10000) < 3000 THEN "Moderate Risk"
    ELSE "High Risk"

\* the four-tier label from current * 100 (unrounded)
RiskLabel(current) ==
    IF current < 5 * OnePercent THEN "Very Low Risk"
    ELSE IF current < 15 * OnePercent THEN "Low Risk"
    ELSE IF current < 30 * OnePercent THEN "Moderate Risk"
    ELSE "High Risk"

\* mutant: the cap at 0.6 left out
PhysCap_Missing(phys_score) == phys_score

\* "if phys_score > 0.6: phys_score = 0.6"
PhysCap(phys_score) == IF phys_score > 60 THEN 60 ELSE phys_score

\* the rows written to final_diabetes_risk_<timestamp>.csv
ReportRows(current, p10, p30, phys_score, adj) ==
    [written |-> TRUE,
     current |-> PctRound(current),
     ten |-> PctRound(p10),
     thirty |-> PctRound(p30),
     physiology |-> 100 * phys_score,
     adjustment |-> (10000 \div AdjOne) * adj]

NoReport ==
    [written |-> FALSE, current |-> 0, ten |-> 0, thirty |-> 0,
     physiology |-> 0, adjustment |-> 0]

\* the dict returned by run_diabetes_prediction (and what it persists when save)
run_diabetes_prediction(po, sv) ==
    LET phys_score == PhysCap(po.physiology_score)
        adj == compute_metadata_adjustment(po.metadata)
        p == physiology_to_absolute_probability(phys_score, adj, BASELINE_PREVALENCE)
    IN  [current_risk |-> PctRound(p.current),
         ten_yr_risk |-> PctRound(p.ten),
         thirty_yr_risk |-> PctRound(p.thirty),
         risk_label |-> RiskLabel(p.current),
         physiology_score |-> 100 * phys_score,
         metadata_adjustment |-> (10000 \div AdjOne) * adj,
         current |-> p.current,
         report |-> IF sv THEN ReportRows(p.current, p.ten, p.thirty, phys_score, adj)
                    ELSE NoReport]

NoResult ==
    [current_risk |-> 0, ten_yr_risk |-> 0, thirty_yr_risk |-> 0, risk_label |-> "",
     physiology_score |-> 0, metadata_adjustment |-> 0, current |-> 0,
     report |-> NoReport]

-----------------------------------------------------------------------------
(* main.py: the presentation route                                          *)

\* index(): the label re-derived from the persisted "Current Likelihood (%)"
PageLabel(current_pct) ==
    IF current_pct < 500 THEN "Very Low Risk"
    ELSE IF current_pct < 1500 THEN "Low Risk"
    ELSE IF current_pct < 3000 THEN "Moderate Risk"
    ELSE "High Risk"

NoPage == [shown |-> FALSE, found |-> FALSE, current_risk |-> 0, risk_label |-> ""]

index(report) ==
    IF ~report.written
    THEN [shown |-> TRUE, found |-> FALSE, current_risk |-> 0, risk_label |-> ""]
    ELSE [shown |-> TRUE, found |-> TRUE, current_risk |-> report.current,
          risk_label |-> PageLabel(report.current)]

-----------------------------------------------------------------------------
(* feature_normalisation.py                                                 *)
(* Feature values are integers in these units: heart_rate_bpm 1 bpm,        *)
(* hrv_ms 1 ms, amplitude_mean 0.01, rise_time_mean_s 0.01 s, bmi 0.1.      *)

RiskOne == 48 * 100
ScoreOne == RiskOne * 100

\* stands for the float nan that risk_from_deviation returns for a NaN value
NaNRisk == 0 - 1

\* the order in which PPG_WEIGHTS is iterated
WeightedFeatures ==
    <<"heart_rate_bpm", "hrv_ms", "amplitude_mean", "rise_time_mean_s", "bmi">>

\* PPG_WEIGHTS, in hundredths
PPG_WEIGHTS ==
    [heart_rate_bpm |-> 22, hrv_ms |-> 25, amplitude_mean |-> 18,
     rise_time_mean_s |-> 18, bmi |-> 17]

\* HEALTH_RANGES, in the unit of each feature
HEALTH_RANGES ==
    [heart_rate_bpm |-> <<60, 100>>, hrv_ms |-> <<20, 120>>,
     amplitude_mean |-> <<20, 120>>, rise_time_mean_s |-> <<12, 60>>,
     bmi |-> <<185, 249>>]

\* mutant: a NaN value is handed on as it is
safe_get_KeepNaN(d, k) == d[k]

\* safe_get: None for a missing, None or NaN value
safe_get(d, k) == IF d[k].t \in {"none", "nan"} THEN PyNone ELSE d[k]

\* distance of a number from the nearer bound of the band
BandDistance(val, normal_min, normal_max) ==
    Min(Abs(val - normal_min), Abs(val - normal_max))

\* mutant: the early return for an in-band value left out
risk_from_deviation_NoBandTest(value, normal_min, normal_max, weight) ==
    IF value.t = "none" THEN 0
    ELSE IF value.t = "str" THEN 0
    ELSE IF value.t = "nan" THEN NaNRisk
    ELSE LET val == value.n
             dist == BandDistance(val, normal_min, normal_max)
             norm_range == Max(1, normal_max - normal_min)
         IN  Clip((dist * RiskOne * weight) \div (norm_range * 100), 0, RiskOne)

\* mutant: the final clip left out
risk_from_deviation_Unclipped(value, normal_min, normal_max, weight) ==
    IF value.t = "none" THEN 0
    ELSE IF value.t = "str" THEN 0
    ELSE IF value.t = "nan" THEN NaNRisk
    ELSE LET val == value.n
             dist == BandDistance(val, normal_min, normal_max)
             norm_range == Max(1, normal_max - normal_min)
         IN  IF normal_min <= val /\ val <= normal_max THEN 0
             ELSE (dist * RiskOne * weight) \div (norm_range * 100)

\* risk_from_deviation; weight in hundredths.  A string here is one float()
\* rejects; max(1e-6, .) is Max(1, .) as every band is wider than one unit.
risk_from_deviation(value, normal_min, normal_max, weight) ==
    IF value.t = "none" THEN 0
    ELSE IF value.t = "str" THEN 0
    ELSE IF value.t = "nan" THEN NaNRisk
    ELSE LET val == value.n
             dist == BandDistance(val, normal_min, normal_max)
             norm_range == Max(1, normal_max - normal_min)
         IN  IF normal_min <= val /\ val <= normal_max THEN 0
             ELSE Clip((dist * RiskOne * weight) \div (norm_range * 100), 0, RiskOne)

\* clamp01
clamp01(x) == Clip(x, 0, ScoreOne)

\* the r of one loop iteration of compute_physiology_score
FeatureRisk(fr, f) ==
    risk_from_deviation(safe_get(fr, f), HEALTH_RANGES[f][1], HEALTH_RANGES[f][2], 100)

\* round(r * 100, 2), in hundredths of a percent
BreakdownEntry(r) == Round(r * 10000, RiskOne)

RECURSIVE WeightedSum(_, _)
\* score after the first n loop iterations
WeightedSum(fr, n) ==
    IF n = 0 THEN 0
    ELSE WeightedSum(fr, n - 1)
           + FeatureRisk(fr, WeightedFeatures[n]) * PPG_WEIGHTS[WeightedFeatures[n]]

RECURSIVE TotalWeight(_)
\* total_w after the first n loop iterations
TotalWeight(n) ==
    IF n = 0 THEN 0 ELSE TotalWeight(n - 1) + PPG_WEIGHTS[WeightedFeatures[n]]

compute_physiology_score(fr) ==
    LET n == Len(WeightedFeatures)
        score == WeightedSum(fr, n)
        total_w == TotalWeight(n)
    IN  [risk_terms |-> [f \in DOMAIN PPG_WEIGHTS |-> FeatureRisk(fr, f)],
         breakdown |-> [f \in DOMAIN PPG_WEIGHTS |-> BreakdownEntry(FeatureRisk(fr, f))],
         phys_score |-> IF total_w <= 0 THEN 0 ELSE clamp01((score * 100) \div total_w)]

\* feature values drawn for each weighted feature
Unparseable == PyStr("n/a")
HeartRates ==
    {PyNone, PyNaN, Unparseable, PyNum(10), PyNum(60), PyNum(75), PyNum(100),
     PyNum(110), PyNum(150)}
Hrvs == {PyNone, PyNaN, PyNum(5), PyNum(20), PyNum(60), PyNum(120), PyNum(150), PyNum(300)}
Amplitudes ==
    {PyNone, PyNaN, PyNum(5), PyNum(20), PyNum(60), PyNum(120), PyNum(150), PyNum(250)}
RiseTimes == {PyNone, PyNaN, PyNum(5), PyNum(12), PyNum(30), PyNum(60), PyNum(70), PyNum(120)}
Bmis ==
    {PyNone, PyNaN, Unparseable, PyNum(100), PyNum(170), PyNum(185), PyNum(220),
     PyNum(249), PyNum(300), PyNum(400)}

FeatureValues ==
    [heart_rate_bpm |-> HeartRates, hrv_ms |-> Hrvs, amplitude_mean |-> Amplitudes,
     rise_time_mean_s |-> RiseTimes, bmi |-> Bmis]

FeatureRecords ==
    [heart_rate_bpm : HeartRates, hrv_ms : Hrvs, amplitude_mean : Amplitudes,
     rise_time_mean_s : RiseTimes, bmi : Bmis]

NoFeatures == [f \in DOMAIN PPG_WEIGHTS |-> PyNone]
NoTerms == [f \in DOMAIN PPG_WEIGHTS |-> 0]

NormIdle ==
    /\ feature_record = NoFeatures
    /\ risk_terms = NoTerms
    /\ breakdown = NoTerms
    /\ norm_phys_score = 0

-----------------------------------------------------------------------------
(* beat_detection.py, feature_extraction.py and run_pipeline of main.py     *)
(* A recording stands for its filtered signal by the sample indices at which *)
(* find_peaks reports the systolic peaks and the valleys.                    *)

\* the last sample index of a recording
MaxIdx == 8

Samples == 0..MaxIdx

RECURSIVE SortedSeq(_)
\* the elements of a finite set of integers in ascending order
SortedSeq(S) ==
    IF S = {} THEN <<>>
    ELSE LET m == CHOOSE x \in S : \A y \in S : x <= y
         IN  <<m>> \o SortedSeq(S \ {m})

\* min_distance = int(0.4 * fs), counted in samples of the recordings above
MinDistance == 2

\* index sets find_peaks can return: any two indices at least MinDistance apart
Spaced == {S \in SUBSET Samples : \A x, y \in S : x < y => y - x >= MinDistance}

\* peaks and valleys as find_peaks returns them: ascending, spaced, disjoint
Recordings ==
    {[peaks |-> SortedSeq(pv[1]), valleys |-> SortedSeq(pv[2])] :
        pv \in {qv \in Spaced \X Spaced : qv[1] \cap qv[2] = {}}}

\* prior_feet = [v for v in valleys if v < p]
PriorFeet(valleys, p) == SelectSeq(valleys, LAMBDA v : v < p)

RECURSIVE PairedFeet(_, _)
\* paired_feet after the loop over peaks
PairedFeet(peaks, valleys) ==
    IF peaks = <<>> THEN <<>>
    ELSE LET prior_feet == PriorFeet(valleys, Head(peaks))
             rest == PairedFeet(Tail(peaks), valleys)
         IN  IF prior_feet # <<>> THEN <<prior_feet[Len(prior_feet)]>> \o rest
             ELSE rest

\* the dict returned by detect_beats
detect_beats(rec) ==
    [none |-> FALSE,
     foot_indices |-> PairedFeet(rec.peaks, rec.valleys),
     peak_indices |-> rec.peaks,
     beats_count |-> Len(rec.peaks)]

NoBeats == [none |-> TRUE, foot_indices |-> <<>>, peak_indices |-> <<>>, beats_count |-> 0]

\* the features dict of extract_ppg_features: empty, or computed from the beats
\* (peaks[i], feet[i]) with rise_times (peaks - feet), in samples
EmptyFeatures ==
    [empty |-> TRUE, peaks |-> <<>>, feet |-> <<>>, rise_samples |-> <<>>,
     beats_detected |-> 0]

extract_ppg_features(beats_info) ==
    LET min_len == Min(Len(beats_info.peak_indices), Len(beats_info.foot_indices))
        peaks == SubSeq(beats_info.peak_indices, 1, min_len)
        feet == SubSeq(beats_info.foot_indices, 1, min_len)
    IN  IF Len(peaks) < 2 THEN EmptyFeatures
        ELSE [empty |-> FALSE, peaks |-> peaks, feet |-> feet,
              rise_samples |-> [i \in 1..min_len |-> peaks[i] - feet[i]],
              beats_detected |-> Len(peaks)]

\* get_metadata: the activity answer and its numeric encoding
ActivityAnswers == {"sedentary", "moderate", "active", "other"}

activity_score(activity_level) ==
    CASE activity_level = "sedentary" -> PyNum(10)
      [] activity_level = "moderate" -> PyNum(20)
      [] activity_level = "active" -> PyNum(30)
      [] OTHER -> PyNaN

get_metadata(answer) ==
    [activity_level |-> answer, activity_score |-> activity_score(answer)]

\* mutant: the oldest file of the directory is selected
Latest_Oldest(dir) == dir[1]

\* the newest file of a directory (max by modification time), if any
HasLatest(dir) == dir # <<>>
Latest(dir) == dir[Len(dir)]

\* the value run_feature_extraction hands back: it has no return statement
FeatureExtractionReturn == "None"

PipeIdle ==
    /\ raw_files = <<>>
    /\ processed_files = <<>>
    /\ features_files = <<>>
    /\ raw_file = "None"
    /\ beats_data = NoBeats
    /\ ppg_features = EmptyFeatures
    /\ features_file = "None"
    /\ pipeline_result = "None"

\* two run_pipeline processes on the same data directories
Runs == {1, 2}

\* the raw file run r writes: <user>_ppg_<timestamp>.csv
SessionName(r) == IF r = 1 THEN "session_1" ELSE "session_2"

\* the recordings the sessions can hold
SessionRecordings ==
    {[peaks |-> <<1, 3>>, valleys |-> <<0>>],
     [peaks |-> <<2, 5, 8>>, valleys |-> <<0, 4, 7>>],
     [peaks |-> <<4>>, valleys |-> <<>>]}

\* a directory after file is written: a file of the same name is replaced and
\* the written file is the newest
WriteFile(dir, file) == Append(SelectSeq(dir, LAMBDA g : g.name # file.name), file)

NoReads == [preprocess |-> "None", beat_detection |-> "None", feature_extraction |-> "None"]

RunsIdle ==
    /\ run_pc = [r \in Runs |-> "idle"]
    /\ run_read = [r \in Runs |-> NoReads]
    /\ run_beats = [r \in Runs |-> NoBeats]
    /\ serial = TRUE

-----------------------------------------------------------------------------
(* preprocess.py                                                            *)
(* A raw file stands for its timestamp deltas, in ms.  np.percentile and    *)
(* np.mean do not depend on the order of the deltas, so the deltas are kept *)
(* as counts: n_base deltas of the regular interval and n_gap longer ones.  *)
(* ir_signal and df are slices [first, first + len) of the raw samples.     *)

DEFAULT_FS == 100

\* the largest numbers of regular and of long deltas in a raw file
MaxBase == 210
MaxGaps == 12

BaseDeltas == {10, 20, 50}
GapDeltas == {100}

\* raw files of at least two samples
TimeDiffs ==
    {td \in [base : BaseDeltas, n_base : 0..MaxBase, gap : GapDeltas, n_gap : 0..MaxGaps] :
        td.n_base + td.n_gap >= 1}

\* len(time_diff) and len(df) of the raw file
NumDiffs(td) == td.n_base + td.n_gap
NumSamples(td) == NumDiffs(td) + 1

\* the i-th smallest delta, i counted from 0
SortedDiff(td, i) == IF i < td.n_base THEN td.base ELSE td.gap

\* 100 * np.percentile(time_diff, 95): linear interpolation at 0.95 * (m - 1)
Percentile95(td) ==
    LET m == NumDiffs(td)
        h == 95 * (m - 1)
        lo == h \div 100
        hi == Min(lo + 1, m - 1)
    IN  100 * SortedDiff(td, lo) + (h % 100) * (SortedDiff(td, hi) - SortedDiff(td, lo))

\* valid_diffs = time_diff[time_diff < np.percentile(time_diff, 95)]
ValidDiffs(td) ==
    LET p == Percentile95(td)
        nb == IF 100 * td.base < p THEN td.n_base ELSE 0
        ng == IF 100 * td.gap < p THEN td.n_gap ELSE 0
    IN  [count |-> nb + ng, sum |-> nb * td.base + ng * td.gap]

\* round(1 / np.mean(valid_diffs)) if len(valid_diffs) > 0 else DEFAULT_FS
EstimatedFs(td) ==
    LET v == ValidDiffs(td)
    IN  IF v.count > 0 THEN Round(1000 * v.count, v.sum) ELSE DEFAULT_FS

\* skip_samples = int(estimated_fs * 2)
SkipSamples(fs) == fs * 2

\* mutant: a recording of exactly skip_samples samples is trimmed as well
Trimmed_AtLeast(n, skip_samples) ==
    IF n >= skip_samples THEN [first |-> skip_samples, len |-> n - skip_samples]
    ELSE [first |-> 0, len |-> n]

\* "if len(ir_signal) > skip_samples": ir_signal[skip_samples:], df.iloc[skip_samples:]
Trimmed(n, skip_samples) ==
    IF n > skip_samples THEN [first |-> skip_samples, len |-> n - skip_samples]
    ELSE [first |-> 0, len |-> n]

\* order = 2 if len(ir_calibrated) < 500 else 3
FilterOrder(len) == IF len < 500 THEN 2 ELSE 3

\* filtfilt pads by 3 * (2 * order + 1) samples at each end and raises
\* ValueError unless the signal is longer than that
FiltfiltOk(len) == len > 3 * (2 * FilterOrder(len) + 1)

NoSlice == [first |-> 0, len |-> 0]
NoProcessed == [saved |-> FALSE, rows |-> 0, ir_filtered |-> 0]
NoTimeDiffs == [base |-> 0, n_base |-> 0, gap |-> 0, n_gap |-> 0]

\* what preprocess_latest_csv leaves behind for a raw file with deltas td
preprocess_latest_csv(td) ==
    LET fs == EstimatedFs(td)
        slice == Trimmed(NumSamples(td), SkipSamples(fs))
    IN  [estimated_fs |-> fs,
         ir_signal |-> slice,
         df |-> slice,
         processed_csv |-> IF FiltfiltOk(slice.len)
                           THEN [saved |-> TRUE, rows |-> slice.len,
                                 ir_filtered |-> slice.len]
                           ELSE NoProcessed]

\* the fs run_latest_beat_detection derives from a processed file of rows
\* rows, n_gap of whose timestamp intervals are long: 1000.0 / np.mean(intervals),
\* or 100 for a single row
BeatDetectionFs(td, rows, n_gap) ==
    IF rows > 1
    THEN [num |-> 1000 * (rows - 1),
          den |-> (rows - 1 - n_gap) * td.base + n_gap * td.gap]
    ELSE [num |-> 100, den |-> 1]

\* the numbers of long intervals the rows kept by the trimming can hold
KeptGaps(td, slice) ==
    IF slice.first = 0 THEN {td.n_gap}
    ELSE Max(0, slice.len - 1 - td.n_base)..Min(td.n_gap, slice.len - 1)

\* "fs = 100" of run_feature_extraction
FeatureExtractionFs == 100

NoFs == [num |-> 0, den |-> 1]

PreIdle ==
    /\ beat_fs = NoFs
    /\ feature_fs = 0
    /\ time_diff = NoTimeDiffs
    /\ estimated_fs = 0
    /\ ir_signal = NoSlice
    /\ df = NoSlice
    /\ processed_csv = NoProcessed

-----------------------------------------------------------------------------
(* Inputs                                                                   *)

\* how far beyond [0, 1] the phys_score arguments reach, in hundredths
PhysOver == 3
\* the largest physiology score handed to run_diabetes_prediction, in tenths
MaxPhysTenths == 10

PhysArgs == (0 - PhysOver)..(100 + PhysOver)
AdjArgs == ADJ_MIN..ADJ_MAX

\* physiology scores handed to run_diabetes_prediction, in hundredths
PhysGrid == {5} \cup {10 * k : k \in 0..MaxPhysTenths}

FlagNew == {PyNone, PyStr("yes"), PyStr("no"), PyNum(0)}
FlagOld == {PyNone, PyStr("yes"), PyStr("no")}
Ages == {PyNone, PyNum(250), PyNum(400), PyNum(470), PyNum(550), PyNum(650), PyNum(750)}
Sleeps ==
    {PyNone, PyNum(30), PyNum(40), PyNum(50), PyNum(60), PyNum(70), PyNum(80),
     PyNum(90), PyNum(100)}
ActivityNew == {PyNone, PyNum(0), PyNum(10), PyNum(15), PyNum(30), PyNum(40)}
ActivityOld == {PyNone, PyNum(20), PyNaN}
\* activity_score as get_metadata encodes it, or a score given directly
ActivityScores == {PyNone, PyNum(10), PyNum(20), PyNum(30), PyNum(40), PyNaN}

\* metadata mappings with current and legacy key names
MetaInputs ==
    [family_history_first_degree : FlagNew,
     family_diabetes : FlagOld,
     family_history : {PyNone, PyStr("yes")},
     smoking_status : {PyNone, PyStr("yes"), PyNum(0)},
     smoker : FlagOld,
     age : Ages,
     sleep_hours : Sleeps,
     physical_activity_hrs_per_week : ActivityNew,
     activity_score : ActivityOld]

\* metadata mappings as run_feature_normalisation builds them (legacy keys only)
PipelineMetadata ==
    [family_history_first_degree : {PyNone},
     family_diabetes : FlagOld,
     family_history : {PyNone},
     smoking_status : {PyNone},
     smoker : FlagOld,
     age : Ages,
     sleep_hours : Sleeps,
     physical_activity_hrs_per_week : {PyNone},
     activity_score : ActivityScores]

NoMetadata == [k \in MetaKeys |-> PyNone]
NoProbs == [current |-> 0, ten |-> 0, thirty |-> 0]
NoOutput == [physiology_score |-> 0, metadata |-> NoMetadata]

-----------------------------------------------------------------------------
(* SpecProb: physiology_to_absolute_probability on every argument pair      *)

ProbInit ==
    /\ pc = "prob_call"
    /\ phys_arg \in PhysArgs
    /\ adj_arg \in AdjArgs
    /\ probs = NoProbs
    /\ features = NoMetadata
    /\ meta_adj = 0
    /\ physiology_output = NoOutput
    /\ save = FALSE
    /\ result = NoResult
    /\ final_report = NoReport
    /\ page = NoPage
    /\ NormIdle
    /\ PipeIdle
    /\ PreIdle
    /\ RunsIdle

ProbCall ==
    /\ pc = "prob_call"
    /\ probs' = physiology_to_absolute_probability(phys_arg, adj_arg, BASELINE_PREVALENCE)
    /\ pc' = "prob_done"
    /\ UNCHANGED <<phys_arg, adj_arg, features, meta_adj, physiology_output, save,
                   result, final_report, page, normVars, pipeVars, preVars, runsVars>>

ProbNext == ProbCall

SpecProb == ProbInit /\ [][ProbNext]_vars

-----------------------------------------------------------------------------
(* SpecMeta: compute_metadata_adjustment on every metadata mapping          *)

MetaInit ==
    /\ pc = "meta_call"
    /\ features \in MetaInputs
    /\ meta_adj = 0
    /\ phys_arg = 0
    /\ adj_arg = 0
    /\ probs = NoProbs
    /\ physiology_output = NoOutput
    /\ save = FALSE
    /\ result = NoResult
    /\ final_report = NoReport
    /\ page = NoPage
    /\ NormIdle
    /\ PipeIdle
    /\ PreIdle
    /\ RunsIdle

MetaCall ==
    /\ pc = "meta_call"
    /\ meta_adj' = compute_metadata_adjustment(features)
    /\ pc' = "meta_done"
    /\ UNCHANGED <<phys_arg, adj_arg, probs, features, physiology_output, save,
                   result, final_report, page, normVars, pipeVars, preVars, runsVars>>

MetaNext == MetaCall

SpecMeta == MetaInit /\ [][MetaNext]_vars

-----------------------------------------------------------------------------
(* SpecRisk: run_diabetes_prediction, then the presentation route           *)

RiskInit ==
    /\ pc = "risk_call"
    /\ physiology_output \in [physiology_score : PhysGrid, metadata : PipelineMetadata]
    /\ save \in BOOLEAN
    /\ result = NoResult
    /\ final_report = NoReport
    /\ page = NoPage
    /\ phys_arg = 0
    /\ adj_arg = 0
    /\ probs = NoProbs
    /\ features = NoMetadata
    /\ meta_adj = 0
    /\ NormIdle
    /\ PipeIdle
    /\ PreIdle
    /\ RunsIdle

RunDiabetesPrediction ==
    /\ pc = "risk_call"
    /\ LET r == run_diabetes_prediction(physiology_output, save)
       IN  /\ result' = r
           /\ final_report' = IF save THEN r.report ELSE final_report
    /\ pc' = "risk_done"
    /\ UNCHANGED <<phys_arg, adj_arg, probs, features, meta_adj, physiology_output,
                   save, page, normVars, pipeVars, preVars, runsVars>>

Index ==
    /\ pc = "risk_done"
    /\ page' = index(final_report)
    /\ pc' = "page_shown"
    /\ UNCHANGED <<phys_arg, adj_arg, probs, features, meta_adj, physiology_output,
                   save, result, final_report, normVars, pipeVars, preVars, runsVars>>

RiskNext == RunDiabetesPrediction \/ Index

SpecRisk == RiskInit /\ [][RiskNext]_vars

-----------------------------------------------------------------------------
(* SpecNorm: compute_physiology_score on every feature record               *)

RiskModelIdle ==
    /\ phys_arg = 0
    /\ adj_arg = 0
    /\ probs = NoProbs
    /\ features = NoMetadata
    /\ meta_adj = 0
    /\ physiology_output = NoOutput
    /\ save = FALSE
    /\ result = NoResult
    /\ final_report = NoReport
    /\ page = NoPage

NormInit ==
    /\ pc = "norm_call"
    /\ feature_record \in FeatureRecords
    /\ risk_terms = NoTerms
    /\ breakdown = NoTerms
    /\ norm_phys_score = 0
    /\ RiskModelIdle
    /\ PipeIdle
    /\ PreIdle
    /\ RunsIdle

ComputePhysiologyScore ==
    /\ pc = "norm_call"
    /\ LET r == compute_physiology_score(feature_record)
       IN  /\ risk_terms' = r.risk_terms
           /\ breakdown' = r.breakdown
           /\ norm_phys_score' = r.phys_score
    /\ pc' = "norm_done"
    /\ UNCHANGED <<feature_record, riskVars, pipeVars, preVars, runsVars>>

NormNext == ComputePhysiologyScore

SpecNorm == NormInit /\ [][NormNext]_vars

-----------------------------------------------------------------------------
(* SpecPre: preprocess_latest_csv on every raw file                         *)

PreInit ==
    /\ pc = "pre_call"
    /\ time_diff \in TimeDiffs
    /\ estimated_fs = 0
    /\ ir_signal = NoSlice
    /\ df = NoSlice
    /\ processed_csv = NoProcessed
    /\ beat_fs = NoFs
    /\ feature_fs = 0
    /\ RiskModelIdle
    /\ NormIdle
    /\ PipeIdle
    /\ RunsIdle

\* one call; a ValueError of filtfilt ends it before the file is written
PreprocessLatestCsv ==
    /\ pc = "pre_call"
    /\ LET r == preprocess_latest_csv(time_diff)
       IN  /\ estimated_fs' = r.estimated_fs
           /\ ir_signal' = r.ir_signal
           /\ df' = r.df
           /\ processed_csv' = r.processed_csv
           /\ pc' = IF r.processed_csv.saved THEN "pre_done" ELSE "pre_error"
    /\ UNCHANGED <<time_diff, beat_fs, feature_fs, riskVars, normVars, pipeVars, runsVars>>

\* run_latest_beat_detection on the processed file: fs from its timestamps
RunLatestBeatDetection ==
    /\ pc = "pre_done"
    /\ \E n_gap \in KeptGaps(time_diff, df) :
          beat_fs' = BeatDetectionFs(time_diff, processed_csv.rows, n_gap)
    /\ pc' = "beats_done"
    /\ UNCHANGED <<time_diff, estimated_fs, ir_signal, df, processed_csv, feature_fs,
                   riskVars, normVars, pipeVars, runsVars>>

\* run_feature_extraction on the processed file
RunFeatureExtraction_fs ==
    /\ pc = "beats_done"
    /\ feature_fs' = FeatureExtractionFs
    /\ pc' = "features_done"
    /\ UNCHANGED <<time_diff, estimated_fs, ir_signal, df, processed_csv, beat_fs,
                   riskVars, normVars, pipeVars, runsVars>>

PreNext == PreprocessLatestCsv \/ RunLatestBeatDetection \/ RunFeatureExtraction_fs

SpecPre == PreInit /\ [][PreNext]_vars

-----------------------------------------------------------------------------
(* SpecRuns: two runs of run_pipeline on the same data directories, one     *)
(* after the other or interleaved                                           *)

RunsInit ==
    /\ pc = "runs"
    /\ run_pc = [r \in Runs |-> "phase1"]
    /\ run_read = [r \in Runs |-> NoReads]
    /\ run_beats = [r \in Runs |-> NoBeats]
    /\ serial = TRUE
    /\ PipeIdle
    /\ PreIdle
    /\ RiskModelIdle
    /\ NormIdle

\* run r is between its first step and its end
UnderWay(r) == run_pc[r] \in {"phase2", "phase3", "phase4"}

\* serial stays true as long as no run steps while another one is under way
StepOf(r) == serial' = (serial /\ \A o \in Runs \ {r} : ~UnderWay(o))

\* [1/6] of run r
RunCollect(r) ==
    /\ run_pc[r] = "phase1"
    /\ \/ \E rec \in SessionRecordings :
            /\ raw_files' = WriteFile(raw_files, [name |-> SessionName(r), recording |-> rec])
            /\ run_pc' = [run_pc EXCEPT ![r] = "phase2"]
       \/ /\ UNCHANGED raw_files
          /\ run_pc' = [run_pc EXCEPT ![r] = "failed_collection"]
    /\ StepOf(r)
    /\ UNCHANGED <<pc, processed_files, features_files, raw_file, beats_data, ppg_features,
                   features_file, pipeline_result, run_read, run_beats, riskVars,
                   normVars, preVars>>

\* [2/6] of run r: the newest raw file is preprocessed
RunPreprocess(r) ==
    /\ run_pc[r] = "phase2"
    /\ HasLatest(raw_files)
    /\ processed_files' = WriteFile(processed_files, Latest(raw_files))
    /\ run_read' = [run_read EXCEPT ![r].preprocess = Latest(raw_files).name]
    /\ run_pc' = [run_pc EXCEPT ![r] = "phase3"]
    /\ StepOf(r)
    /\ UNCHANGED <<pc, raw_files, features_files, raw_file, beats_data, ppg_features,
                   features_file, pipeline_result, run_beats, riskVars, normVars,
                   preVars>>

\* [3/6] of run r: beats are detected in the newest processed file
RunBeatDetection(r) ==
    /\ run_pc[r] = "phase3"
    /\ IF HasLatest(processed_files)
       THEN /\ run_beats' = [run_beats EXCEPT
                                ![r] = detect_beats(Latest(processed_files).recording)]
            /\ run_read' = [run_read EXCEPT
                                ![r].beat_detection = Latest(processed_files).name]
            /\ run_pc' = [run_pc EXCEPT ![r] = "phase4"]
       ELSE /\ UNCHANGED <<run_beats, run_read>>
            /\ run_pc' = [run_pc EXCEPT ![r] = "failed_beats"]
    /\ StepOf(r)
    /\ UNCHANGED <<pc, raw_files, processed_files, features_files, raw_file, beats_data,
                   ppg_features, features_file, pipeline_result, riskVars, normVars,
                   preVars>>

\* [4/6] of run r: the features file is named after the newest processed file
RunFeatureExtraction(r) ==
    /\ run_pc[r] = "phase4"
    /\ IF HasLatest(processed_files)
       THEN \E answer \in ActivityAnswers :
              LET latest_file == Latest(processed_files)
              IN  /\ features_files' =
                        WriteFile(features_files,
                                  [name |-> latest_file.name,
                                   metadata |-> get_metadata(answer),
                                   features |-> extract_ppg_features(run_beats[r])])
                  /\ run_read' = [run_read EXCEPT
                                      ![r].feature_extraction = latest_file.name]
       ELSE UNCHANGED <<features_files, run_read>>
    /\ run_pc' = [run_pc EXCEPT
                    ![r] = IF FeatureExtractionReturn = "None" THEN "failed_features"
                           ELSE "phase5"]
    /\ StepOf(r)
    /\ UNCHANGED <<pc, raw_files, processed_files, raw_file, beats_data, ppg_features,
                   features_file, pipeline_result, run_beats, riskVars, normVars,
                   preVars>>

RunsNext ==
    \E r \in Runs :
        \/ RunCollect(r)
        \/ RunPreprocess(r)
        \/ RunBeatDetection(r)
        \/ RunFeatureExtraction(r)

SpecRuns == RunsInit /\ [][RunsNext]_vars

-----------------------------------------------------------------------------
(* Spec: one run of run_pipeline                                            *)

Init ==
    /\ pc = "phase1"
    /\ PipeIdle
    /\ PreIdle
    /\ RunsIdle
    /\ RiskModelIdle
    /\ NormIdle

\* [1/6] run_data_collection: a recording is written and its path returned,
\* or the serial port cannot be opened and None is returned
Phase1_Collect ==
    /\ pc = "phase1"
    /\ \/ \E rec \in Recordings :
            /\ raw_files' = Append(raw_files, [name |-> "session", recording |-> rec])
            /\ raw_file' = "session"
            /\ pc' = "phase2"
       \/ /\ UNCHANGED <<raw_files, raw_file>>
          /\ pc' = "failed_collection"
    /\ UNCHANGED <<processed_files, features_files, beats_data, ppg_features,
                   features_file, pipeline_result, riskVars, normVars, preVars, runsVars>>

\* [2/6] preprocessing, as preprocess_latest_csv does it (run_pipeline calls it
\* under the name run_preprocessing): the newest raw file gets its ir_filtered
\* column and is saved as <name>_processed.csv
Phase2_Preprocess ==
    /\ pc = "phase2"
    /\ HasLatest(raw_files)
    /\ processed_files' = Append(processed_files, Latest(raw_files))
    /\ pc' = "phase3"
    /\ UNCHANGED <<raw_files, features_files, raw_file, beats_data, ppg_features,
                   features_file, pipeline_result, riskVars, normVars, preVars, runsVars>>

\* [3/6] run_latest_beat_detection on the newest processed file
Phase3_BeatDetection ==
    /\ pc = "phase3"
    /\ IF HasLatest(processed_files)
       THEN /\ beats_data' = detect_beats(Latest(processed_files).recording)
            /\ pc' = "phase4"
       ELSE /\ beats_data' = NoBeats
            /\ pc' = "failed_beats"
    /\ UNCHANGED <<raw_files, processed_files, features_files, raw_file, ppg_features,
                   features_file, pipeline_result, riskVars, normVars, preVars, runsVars>>

\* [4/6] run_feature_extraction(beats_data, save=True), then the check of its
\* return value.  Phases 5 and 6 (main.py lines 126-171) follow only when
\* features_file is not None.
Phase4_FeatureExtraction ==
    /\ pc = "phase4"
    /\ IF HasLatest(processed_files)
       THEN \E answer \in ActivityAnswers :
              LET latest_file == Latest(processed_files)
                  metadata == get_metadata(answer)
                  feats == extract_ppg_features(beats_data)
              IN  /\ ppg_features' = feats
                  /\ features_files' =
                        Append(features_files,
                               [name |-> latest_file.name, metadata |-> metadata,
                                features |-> feats])
       ELSE UNCHANGED <<ppg_features, features_files>>
    /\ features_file' = FeatureExtractionReturn
    /\ pc' = IF FeatureExtractionReturn = "None" THEN "failed_features" ELSE "phase5"
    /\ UNCHANGED <<raw_files, processed_files, raw_file, beats_data, pipeline_result,
                   riskVars, normVars, preVars, runsVars>>

Next ==
    \/ Phase1_Collect
    \/ Phase2_Preprocess
    \/ Phase3_BeatDetection
    \/ Phase4_FeatureExtraction

Spec == Init /\ [][Next]_vars

-----------------------------------------------------------------------------
(* Claims about the risk model                                              *)

\* C1: for every physiology_score in [0,1] and every metadata_adjustment in
\* [-0.35, 0.90], physiology_to_absolute_probability returns current_risk in
\* [0, 0.50], ten-year risk in [0, 0.65] and thirty-year risk in [0, 0.80].
C1_RiskBounds ==
    (pc = "prob_done" /\ phys_arg \in 0..100 /\ adj_arg \in (0 - 140)..360)
        => /\ 0 <= probs.current /\ probs.current <= 125000000
           /\ 0 <= probs.ten /\ probs.ten <= 162500000
           /\ 0 <= probs.thirty /\ probs.thirty <= 200000000

\* C1 witness: the largest legal arguments, where the thirty-year cap binds
C1_Witness ==
    /\ pc = "prob_done"
    /\ phys_arg = 100
    /\ adj_arg = 360
    /\ probs.current = 75360000
    /\ probs.thirty = 200000000

\* C2: compute_metadata_adjustment returns a value in [-0.35, 0.90] for every
\* combination of family history, age, activity, sleep and smoking inputs.
C2_AdjustmentBounds ==
    pc = "meta_done" => (0 - 140 <= meta_adj /\ meta_adj <= 360)

\* C2 witness: an all-penalty profile (raw sum 1.3125) returned as 0.90
C2_Witness ==
    /\ pc = "meta_done"
    /\ IsYes(features.family_history_first_degree)
    /\ IsYes(features.smoking_status)
    /\ features.age = PyNum(750)
    /\ features.sleep_hours = PyNum(30)
    /\ features.physical_activity_hrs_per_week = PyNum(10)
    /\ RawAdjustment(features) > 360
    /\ meta_adj = 360

\* the worst-case profile of the module's self-test, or a more severe one
WorstCaseOrWorse(po) ==
    /\ po.physiology_score = 50
    /\ po.metadata.family_diabetes = PyStr("yes")
    /\ po.metadata.smoker = PyStr("yes")
    /\ po.metadata.age \in {PyNum(650), PyNum(750)}
    /\ po.metadata.activity_score = PyNum(10)
    /\ po.metadata.sleep_hours = PyNum(30)

\* C3 as stated: the worst-case profile with physiology_score 0.5 has its
\* adjustment clamped to 0.90 and its current_risk clamped to the 0.50 ceiling.
C3_AsStated ==
    (pc = "risk_done" /\ WorstCaseOrWorse(physiology_output))
        => /\ result.metadata_adjustment = 9000
           /\ result.current = 125000000

\* C3 amended: for that profile the adjustment is clamped to 0.90 and
\* current_risk is 0.23664, below the 0.50 ceiling; a more severe profile
\* (age 75) changes neither value.
C3_WorstCase ==
    (pc = "risk_done" /\ WorstCaseOrWorse(physiology_output))
        => /\ result.metadata_adjustment = 9000
           /\ result.current = 59160000
           /\ result.current_risk = 2366

\* C3 witness: the worst-case profile itself has been scored
C3_Witness ==
    /\ pc = "risk_done"
    /\ WorstCaseOrWorse(physiology_output)
    /\ physiology_output.metadata.age = PyNum(650)
    /\ RawAdjustment(physiology_output.metadata) = 525
    /\ result.metadata_adjustment = 9000

\* the low-risk profile of the module's self-test
LowRiskProfile(po) ==
    /\ po.physiology_score = 5
    /\ po.metadata.family_diabetes = PyStr("no")
    /\ po.metadata.smoker = PyStr("no")
    /\ po.metadata.age = PyNum(250)
    /\ po.metadata.activity_score = PyNum(40)
    /\ po.metadata.sleep_hours = PyNum(80)

\* C9: the risk label is decided by current_risk alone with the thresholds
\* 5 %, 15 % and 30 %; the low-risk profile scores below the worst-case
\* profile and is 'Very Low Risk' exactly when its current_risk is below 5 %.
C9_LabelThresholds ==
    pc \in {"risk_done", "page_shown"}
        => /\ (result.risk_label = "Very Low Risk") = (result.current < 12500000)
           /\ (result.risk_label = "Low Risk")
                = (12500000 <= result.current /\ result.current < 37500000)
           /\ (result.risk_label = "Moderate Risk")
                = (37500000 <= result.current /\ result.current < 75000000)
           /\ (result.risk_label = "High Risk") = (75000000 <= result.current)
           /\ LowRiskProfile(physiology_output) => result.current < 59160000

\* C9 witness: the low-risk profile, scored 11.27 % and labelled 'Low Risk'
C9_Witness ==
    /\ pc = "risk_done"
    /\ LowRiskProfile(physiology_output)
    /\ result.current_risk = 1127
    /\ result.risk_label = "Low Risk"

\* C10: for every persisted result, the label the presentation route derives
\* from the persisted 'Current Likelihood (%)' equals the risk_label the risk
\* model computed from the unrounded current_risk.
C10_LabelsAgree ==
    (pc = "page_shown" /\ page.found) => page.risk_label = result.risk_label

-----------------------------------------------------------------------------
(* Claims about the physiology normaliser                                   *)

\* every weighted feature holds a number inside its reference band
AllInBand(fr) ==
    /\ fr.heart_rate_bpm.t = "num" /\ fr.heart_rate_bpm.n \in 60..100
    /\ fr.hrv_ms.t = "num" /\ fr.hrv_ms.n \in 20..120
    /\ fr.amplitude_mean.t = "num" /\ fr.amplitude_mean.n \in 20..120
    /\ fr.rise_time_mean_s.t = "num" /\ fr.rise_time_mean_s.n \in 12..60
    /\ fr.bmi.t = "num" /\ fr.bmi.n \in 185..249

\* C4: compute_physiology_score returns a score in [0,1] for every feature
\* record, and exactly 0 when each weighted feature lies within its band.
C4_ScoreBounds ==
    pc = "norm_done"
        => /\ 0 <= norm_phys_score /\ norm_phys_score <= 480000
           /\ AllInBand(feature_record) => norm_phys_score = 0

\* C4 witness: 75 bpm, 60 ms, 0.6, 0.3 s, BMI 22 scored 0
C4_Witness ==
    /\ pc = "norm_done"
    /\ feature_record.heart_rate_bpm = PyNum(75)
    /\ feature_record.hrv_ms = PyNum(60)
    /\ feature_record.amplitude_mean = PyNum(60)
    /\ feature_record.rise_time_mean_s = PyNum(30)
    /\ feature_record.bmi = PyNum(220)
    /\ norm_phys_score = 0

\* distance of v from the band [lo, hi]: 0 inside, else from the nearer bound
OutsideBy(v, lo, hi) == IF v < lo THEN lo - v ELSE IF v > hi THEN v - hi ELSE 0

\* C5: risk_from_deviation(v, low, high) is 0 for v in [low, high]; outside it
\* is min(|v-low|, |v-high|)/(high-low) clipped to [0,1], so it is non-decreasing
\* in the distance from the nearer bound and stays in [0,1]; BMI 30 against
\* [18.5, 24.9] gives 5.1/6.4.
C5_DeviationRisk ==
    pc = "norm_done"
        => \A f \in DOMAIN PPG_WEIGHTS :
             LET v == feature_record[f]
                 lo == HEALTH_RANGES[f][1]
                 hi == HEALTH_RANGES[f][2]
                 r == risk_terms[f]
             IN  v.t = "num"
                   => /\ 0 <= r /\ r <= 4800
                      /\ (lo <= v.n /\ v.n <= hi) => r = 0
                      /\ (v.n < lo \/ v.n > hi)
                           => \/ r = 4800 /\ OutsideBy(v.n, lo, hi) >= hi - lo
                              \/ r * (hi - lo) = 4800 * OutsideBy(v.n, lo, hi)
                      /\ \A w \in FeatureValues[f] :
                           (w.t = "num" /\ OutsideBy(v.n, lo, hi) <= OutsideBy(w.n, lo, hi))
                             => r <= risk_from_deviation(w, lo, hi, 100)
                      /\ (f = "bmi" /\ v.n = 300) => r * 64 = 4800 * 51

\* C5 witness: BMI 30 scored 5.1/6.4 = 0.796875
C5_Witness ==
    /\ pc = "norm_done"
    /\ feature_record.bmi = PyNum(300)
    /\ risk_terms.bmi = 3825
    /\ breakdown.bmi = 7969

-----------------------------------------------------------------------------
(* Claims about beat pairing, feature extraction and the pipeline           *)

\* the feature extractor has run
Extracted == pc \in {"failed_features", "phase5"}

\* C6: every (foot, peak) pair used as a beat - position i of foot_indices
\* with position i of peak_indices, as consumed by extract_ppg_features - has
\* foot_index < peak_index, and a peak preceding all feet produces no beat.
C6_FootBeforePeak ==
    Extracted
        => \A i \in 1..Len(ppg_features.peaks) :
             /\ ppg_features.feet[i] < ppg_features.peaks[i]
             /\ \E j \in 1..Len(beats_data.foot_indices) :
                  beats_data.foot_indices[j] < ppg_features.peaks[i]

\* C7: with fewer than 2 usable peaks the run fails with InsufficientBeats and
\* no features artifact is persisted for the session.
C7_NoArtifactWhenInsufficient ==
    (Extracted /\ ppg_features.empty)
        => /\ pc = "failed_features"
           /\ features_files = <<>>

\* every stage of the run has produced a complete output
StagesSucceeded ==
    /\ raw_file # "None"
    /\ processed_files # <<>>
    /\ ~beats_data.none
    /\ ~ppg_features.empty
    /\ features_files # <<>>

\* the run has ended
Ended == pc \in {"failed_collection", "failed_beats", "failed_features", "complete"}

\* C8: the stages run in the order Preprocessor, Beat Detector, Feature
\* Extractor, Normalizer, Risk Model, no stage runs before the one before it
\* has produced its output, and a run in which every stage succeeds reaches
\* the Risk Model and produces a RiskAssessment.
C8_RunReachesRiskModel ==
    /\ pc \in {"phase3", "phase4"} => processed_files # <<>>
    /\ pc = "phase4" => ~beats_data.none
    /\ Extracted => ~beats_data.none
    /\ (Ended /\ StagesSucceeded) => pipeline_result # "None"

-----------------------------------------------------------------------------
(* Claims about the cap on the physiology score and the adjustment tiers    *)

\* C11: the physiology score run_diabetes_prediction computes with and reports
\* never exceeds 0.6: an input above 0.6 is replaced by 0.6, an input in
\* [0, 0.6] is used unchanged (current_risk = 0.12 * (1 + 1.08 * score +
\* 0.48 * adjustment) with that score).
C11_PhysScoreCapped ==
    pc \in {"risk_done", "page_shown"}
        => LET used == Min(physiology_output.physiology_score, 60)
           IN  /\ result.physiology_score <= 6000
               /\ result.physiology_score = 100 * used
               /\ result.current
                    = 30000000 + 324000 * used + 1440 * result.metadata_adjustment

\* C11 witness: an input score of 1.0 has been scored and is reported as 60 %
C11_Witness ==
    /\ pc = "risk_done"
    /\ physiology_output.physiology_score = 100
    /\ result.physiology_score = 6000

\* a metadata mapping whose only entry is a non-zero number of activity hours
OnlyActivity(f) ==
    /\ f.physical_activity_hrs_per_week.t = "num"
    /\ f.physical_activity_hrs_per_week.n # 0
    /\ \A k \in MetaKeys \ {"physical_activity_hrs_per_week"} : f[k] = PyNone

\* C12: the activity contribution is +0.20 for activity <= 1, +0.10 for
\* activity 2, strictly positive for 3 <= activity < 4 and negative only for
\* activity >= 4; no activity below 4 lowers the adjustment.
C12_ActivityTiers ==
    (pc = "meta_done" /\ OnlyActivity(features))
        => LET act == features.physical_activity_hrs_per_week.n
           IN  /\ act <= 10 => meta_adj = 80
               /\ act = 20 => meta_adj = 40
               /\ (30 <= act /\ act < 40) => meta_adj > 0
               /\ act < 40 => meta_adj >= 0
               /\ act >= 40 => meta_adj < 0

\* a metadata mapping whose only entry is a number of sleep hours
OnlySleep(f) ==
    /\ f.sleep_hours.t = "num"
    /\ \A k \in MetaKeys \ {"sleep_hours"} : f[k] = PyNone

\* C13: the sleep contribution is +0.10 below 4 h, +0.06 from 4 h to 6 h
\* inclusive, -0.08 from 7 h to 9 h inclusive and +0.05 above 9 h.
C13_SleepBrackets ==
    (pc = "meta_done" /\ OnlySleep(features))
        => LET sh == features.sleep_hours.n
           IN  /\ sh < 40 => meta_adj = 40
               /\ (40 <= sh /\ sh <= 60) => meta_adj = 24
               /\ (70 <= sh /\ sh <= 90) => meta_adj = 0 - 32
               /\ sh > 90 => meta_adj = 20

\* lookup by key presence: the legacy value only when the current key is absent
ByPresence(current, legacy) == IF current # PyNone THEN current ELSE legacy

\* C14: a current key that is present with any value (0 and 'no' included) is
\* used and its legacy keys are ignored; a legacy key is consulted only when
\* the current key is absent.
C14_FallbackOnPresence ==
    pc = "meta_done"
        => LET f == features
               family == ByPresence(f.family_history_first_degree,
                                    ByPresence(f.family_diabetes, f.family_history))
               smoking == ByPresence(f.smoking_status, f.smoker)
               activity == ByPresence(f.physical_activity_hrs_per_week,
                                      f.activity_score)
           IN  meta_adj = MetaClamp(FamilyAdj(family) + AgeAdj(f.age)
                                      + ActivityAdj(activity) + SleepAdj(f.sleep_hours)
                                      + SmokingAdj(smoking))

-----------------------------------------------------------------------------
(* Claims about the projections and the beat pairing                        *)

\* C15: for every physiology_score in [0,1] and every metadata_adjustment in
\* [-0.35, 0.90], current_risk <= ten_year_risk <= thirty_year_risk, and a
\* negative adjustment adds nothing to the projection multipliers
\* (1 + 0.40 * phys and 1 + 0.85 * phys).
C15_ProjectionsOrdered ==
    (pc = "prob_done" /\ phys_arg \in 0..100 /\ adj_arg \in (0 - 140)..360)
        => /\ probs.current <= probs.ten
           /\ probs.ten <= probs.thirty
           /\ adj_arg < 0
                => /\ probs.ten
                        = Min(162500000, (probs.current \div 2000) * (2000 + 8 * phys_arg))
                   /\ probs.thirty
                        = Min(200000000, (probs.current \div 4000) * (4000 + 34 * phys_arg))

\* C15 witness: the most protective adjustment with a zero physiology score,
\* where all three risks coincide at 0.12 * (1 - 0.48 * 0.35) = 9.984 %
C15_Witness ==
    /\ pc = "prob_done"
    /\ phys_arg = 0
    /\ adj_arg = 0 - 140
    /\ probs.current = 24960000
    /\ probs.ten = 24960000
    /\ probs.thirty = 24960000

\* detect_beats has returned its dict
BeatsDetected == pc \in {"phase4", "failed_features", "phase5"} /\ ~beats_data.none

\* C16: the beat count reported by detect_beats equals the number of peaks
\* that received a foot (the length of the paired foot list).
C16_BeatCountIsPairedCount ==
    BeatsDetected => beats_data.beats_count = Len(beats_data.foot_indices)

\* C17: no foot is paired with more than one peak: the paired foot list holds
\* no index twice and the beats are strictly ordered by peak index.
C17_NoFootUsedTwice ==
    BeatsDetected
        => /\ \A i, j \in 1..Len(beats_data.foot_indices) :
                i < j => beats_data.foot_indices[i] # beats_data.foot_indices[j]
           /\ \A i, j \in 1..Len(beats_data.peak_indices) :
                i < j => beats_data.peak_indices[i] < beats_data.peak_indices[j]

-----------------------------------------------------------------------------
(* Claims about missing feature values                                      *)

\* the record fr with feature f set to a number inside its reference band
PlacedInBand(fr, f) == [fr EXCEPT ![f] = PyNum(HEALTH_RANGES[f][1])]

\* C18: a weighted feature whose value is missing, NaN or not parseable as a
\* number contributes exactly 0 risk: its breakdown entry is 0 and the score
\* equals the score of the same record with that feature inside its band.
C18_MissingIsNeutral ==
    pc = "norm_done"
        => \A f \in DOMAIN PPG_WEIGHTS :
             feature_record[f].t # "num"
               => /\ risk_terms[f] = 0
                  /\ breakdown[f] = 0
                  /\ norm_phys_score
                       = compute_physiology_score(PlacedInBand(feature_record, f)).phys_score

\* C18 witness: a NaN heart rate, a missing HRV and an unparseable BMI next to
\* an amplitude and a rise time outside their bands, scored above 0
C18_Witness ==
    /\ pc = "norm_done"
    /\ feature_record.heart_rate_bpm = PyNaN
    /\ feature_record.hrv_ms = PyNone
    /\ feature_record.bmi = Unparseable
    /\ feature_record.amplitude_mean = PyNum(250)
    /\ feature_record.rise_time_mean_s = PyNum(70)
    /\ norm_phys_score > 0

-----------------------------------------------------------------------------
(* Claims about the preprocessor                                            *)

\* preprocess_latest_csv has estimated the rate and trimmed the warm-up
Preprocessed == pc \in {"pre_done", "pre_error", "beats_done", "features_done"}

\* C19: the default rate is used only for a recording without deltas; a
\* recording of two or more samples whose deltas all equal d ms is estimated
\* at round(1000 / d) Hz.
C19_EqualDeltasEstimated ==
    Preprocessed
        => /\ ValidDiffs(time_diff).count = 0 => NumDiffs(time_diff) = 0
           /\ time_diff.n_gap = 0 => estimated_fs = Round(1000, time_diff.base)
           /\ time_diff.n_base = 0 => estimated_fs = Round(1000, time_diff.gap)

\* C20: warm-up trimming removes exactly the first 2 * estimated_fs samples of
\* signal and table and is a no-op only for a recording with fewer samples
\* than that (one with exactly 2 * estimated_fs samples is trimmed); signal
\* and table rows stay one-to-one.
C20_AsStated ==
    Preprocessed
        => LET n == NumSamples(time_diff)
               skip == 2 * estimated_fs
           IN  /\ n >= skip => ir_signal = [first |-> skip, len |-> n - skip]
               /\ n < skip => ir_signal = [first |-> 0, len |-> n]
               /\ df = ir_signal
               /\ processed_csv.saved => processed_csv.rows = processed_csv.ir_filtered

\* C20 as amended: trimming removes exactly the first 2 * estimated_fs samples
\* of signal and table when the recording has more samples than that, and is a
\* no-op when it has at most that many (exactly 2 * estimated_fs samples are
\* kept); signal and table rows stay one-to-one.
C20_TrimWhenLonger ==
    Preprocessed
        => LET n == NumSamples(time_diff)
               skip == 2 * estimated_fs
           IN  /\ n > skip => ir_signal = [first |-> skip, len |-> n - skip]
               /\ n <= skip => ir_signal = [first |-> 0, len |-> n]
               /\ df = ir_signal
               /\ processed_csv.saved
                    => /\ processed_csv.rows = ir_signal.len
                       /\ processed_csv.ir_filtered = ir_signal.len

\* C20 witness: a 100 Hz recording of 220 samples lost its first 200 and was
\* saved with 20 rows
C20_Witness ==
    /\ pc = "pre_done"
    /\ estimated_fs = 100
    /\ NumSamples(time_diff) = 220
    /\ ir_signal = [first |-> 200, len |-> 20]
    /\ processed_csv = [saved |-> TRUE, rows |-> 20, ir_filtered |-> 20]

-----------------------------------------------------------------------------
(* Claims about runs sharing the data directories                           *)

\* the stages of run r that have selected a file
StagesRead(r) == {st \in DOMAIN NoReads : run_read[r][st] # "None"}

\* C21: every stage takes the newest file of its directory; when the runs
\* execute one after the other every stage reads the file of its own run,
\* whereas two interleaved runs can reach a state in which a stage of one run
\* has read the file of the other (the witness).
C21_SerialRunsReadOwn ==
    /\ \A r \in Runs :
         /\ run_read[r].preprocess # "None"
              => \E f \in DOMAIN raw_files : raw_files[f].name = run_read[r].preprocess
         /\ run_read[r].beat_detection # "None"
              => \E f \in DOMAIN processed_files :
                    processed_files[f].name = run_read[r].beat_detection
    /\ serial => \A r \in Runs : \A st \in StagesRead(r) : run_read[r][st] = SessionName(r)

\* C21 witness: with the runs interleaved, run 1 detected its beats in the
\* recording of session 2
C21_Witness ==
    /\ ~serial
    /\ run_read[1].beat_detection = SessionName(2)
    /\ run_pc[1] = "failed_features"
    /\ \E f \in DOMAIN raw_files :
         /\ raw_files[f].name = SessionName(2)
         /\ run_beats[1] = detect_beats(raw_files[f].recording)

-----------------------------------------------------------------------------
(* Claims about the range of the reported risk and the questionnaire        *)

\* C22: for every physiology score in [0,1] and every metadata mapping the
\* current_risk of run_diabetes_prediction lies strictly between 5 % and 30 %
\* and is at most 24.96 %, so the 0.50 ceiling never binds and the label is
\* 'Low Risk' or 'Moderate Risk'.
C22_RiskRange ==
    pc \in {"risk_done", "page_shown"}
        => /\ 12500000 < result.current /\ result.current < 75000000
           /\ result.current <= 62400000
           /\ result.current < CURRENT_CAP
           /\ 500 < result.current_risk /\ result.current_risk <= 2496
           /\ result.risk_label \in {"Low Risk", "Moderate Risk"}

\* C22 witness: the largest score with every penalty reaches 24.96 %
C22_Witness ==
    /\ pc = "risk_done"
    /\ physiology_output.physiology_score = 100
    /\ result.metadata_adjustment = 9000
    /\ result.current_risk = 2496
    /\ result.risk_label = "Moderate Risk"

\* a metadata mapping whose only entry is the questionnaire's activity_score
OnlyActivityScore(md) ==
    /\ md.activity_score # PyNone
    /\ \A k \in MetaKeys \ {"activity_score"} : md[k] = PyNone

\* the contributions of the risk model's tiers of the same meaning, in
\* hundredths of a percent: sedentary +0.20; moderate -0.06 (the tier 3 to 4,
\* printed as 'Moderate activity') or +0.10 (the tier 2, 'low-moderate');
\* active (>= 4) -0.16; an unrecognised answer 0
SameMeaningTiers(answer) ==
    CASE answer = "sedentary" -> {2000}
      [] answer = "moderate" -> {0 - 600, 1000}
      [] answer = "active" -> {0 - 1600}
      [] OTHER -> {0}

\* C23: a questionnaire activity answer is scored in the risk model's tier of
\* the same meaning, and an unrecognised answer (a NaN activity_score)
\* contributes 0 to the metadata adjustment.
C23_AnswerScoredInItsTier ==
    (pc \in {"risk_done", "page_shown"} /\ OnlyActivityScore(physiology_output.metadata))
        => \A answer \in ActivityAnswers :
             physiology_output.metadata.activity_score = activity_score(answer)
               => result.metadata_adjustment \in SameMeaningTiers(answer)

\* C24: within one run the fs of the Beat Detector and the fs of the Feature
\* Extractor both equal the sampling rate the Preprocessor estimated for the
\* recording.
C24_OneSamplingRate ==
    pc = "features_done"
        => /\ beat_fs.num = estimated_fs * beat_fs.den
           /\ feature_fs = estimated_fs

=============================================================================
